---- MODULE Spec2Model ----
(***************************************************************************)
(* NetBot: discovery -> validation/dedup -> judge -> rank -> decision ->   *)
(* comment -> record.  The Record Store (core/database.py), the four       *)
(* platform validators (core/networks/*/discovery.py), the SocialAgent     *)
(* pipeline (core/agent.py, core/chains/*.py) and the orchestrator cycle   *)
(* (main.py) are modelled as state machines over one shared store `db`.    *)
(***************************************************************************)
EXTENDS Integers, Sequences, FiniteSets, TLC

VARIABLES
    db,         \* the Record Store tables: interactions, discovered_posts, daily_stats
    discovery,  \* the platform whose DiscoveryStrategy object is exercised
    call,       \* the last validate_candidate call: arguments, store calls made, result
    approved,   \* rank_by_virality's argument: the judge-approved (post, verdict) pairs
    ranked,     \* rank_by_virality's result, once it has returned
    judgement,  \* the last judge_all run: candidates, what each Judge call met, result
    decision,   \* the last decide_and_comment call: what generation met, result
    networks,   \* AgentOrchestrator.networks: the registered networks, in order
    cycle,      \* where the orchestrator is in run_cycle, and its local variables
    audit,      \* what has happened so far: comments posted, logs lost, reads failed
    wrapper,    \* the last Record Store wrapper call made on its own, and its outcome
    settings,   \* config.settings: the flags the orchestrator is started with
    startup,    \* where start() is: the login loop, the main loop, the stop signal
    procs       \* two orchestrator processes sharing the store, one candidate each

vars == <<db, discovery, call, approved, ranked, judgement, decision,
          networks, cycle, audit, wrapper, settings, startup, procs>>

(***************************************************************************)
(* Bounds of the model                                                     *)
(***************************************************************************)
\* most rows the interactions table holds for one (post_id, platform)
MaxRows == 2
\* longest list of approved pairs handed to rank_by_virality
MaxApproved == 2
\* longest comment text the Ghostwriter generates, in characters
MaxText == 2
\* longest candidate list handed to judge_all
MaxJudged == 2
\* comments posted on one post before the main loop is stopped
MaxComments == 2
\* most posts one source returns to find_candidates
MaxFetched == 2

(***************************************************************************)
(* Data: core/models.py                                                    *)
(***************************************************************************)
SocialPlatform == {"twitter", "linkedin", "instagram", "devto"}

\* post identifiers; "" is the empty identifier (`not post.id` is true)
PostIds == {"", "p1"}

Keys == PostIds \X SocialPlatform

\* None, and the ai_reasoning column left unset
None == <<>>

\* the discovery statuses the store is written with
Statuses == {"seen", "skipped", "rejected", "approved", "commented", "posted"}

\* a discovered_posts table without the row of a key
NoRow == [status |-> "absent", ai_reasoning |-> None]

(***************************************************************************)
(* Record Store: core/database.py.  Each wrapper takes the store, its      *)
(* arguments and `ok` (whether the underlying Supabase call succeeds) and  *)
(* yields the store afterwards; a failing call is caught and logged.       *)
(***************************************************************************)
EmptyDb ==
    [interactions     |-> [k \in Keys |-> 0],
     discovered_posts |-> [k \in Keys |-> NoRow],
     daily_stats      |-> [p \in SocialPlatform |-> 0]]

\* Database.increment_daily_count: the increment_daily_stats RPC
increment_daily_count(d, platform, ok) ==
    IF ok
    THEN [d EXCEPT !.daily_stats[platform] = @ + 1]
    ELSE d

\* log_interaction with the counter incremented first, the row inserted only
\* once the increment went through
log_interaction_increment_first(d, post_id, platform, okInsert, okIncrement) ==
    IF okInsert /\ okIncrement
    THEN increment_daily_count(
             [d EXCEPT !.interactions[<<post_id, platform>>] = @ + 1],
             platform, okIncrement)
    ELSE d

\* log_interaction against a table that refuses a second row for a key
log_interaction_unique(d, post_id, platform, okInsert, okIncrement) ==
    IF okInsert /\ d.interactions[<<post_id, platform>>] = 0
    THEN increment_daily_count(
             [d EXCEPT !.interactions[<<post_id, platform>>] = @ + 1],
             platform, okIncrement)
    ELSE d

\* Database.log_interaction: insert, then increment; a failed insert skips both
log_interaction(d, post_id, platform, okInsert, okIncrement) ==
    IF okInsert
    THEN increment_daily_count(
             [d EXCEPT !.interactions[<<post_id, platform>>] = @ + 1],
             platform, okIncrement)
    ELSE d

\* Database.get_daily_count: 0 when the read fails
get_daily_count(d, platform, ok) ==
    IF ok THEN d.daily_stats[platform] ELSE 0

\* a dedup read that finds no row, whatever the table holds
check_if_interacted_no_rows(d, post_id, platform, ok) == FALSE

\* Database.check_if_interacted: False when the read fails
check_if_interacted(d, post_id, platform, ok) ==
    IF ok THEN d.interactions[<<post_id, platform>>] > 0 ELSE FALSE

\* Database.log_discovery: upsert on (external_id, platform); the upserted
\* columns include status = "seen", ai_reasoning is not among them
log_discovery(d, post_id, platform, ok) ==
    IF ok
    THEN [d EXCEPT !.discovered_posts[<<post_id, platform>>] =
              [status |-> "seen", ai_reasoning |-> @.ai_reasoning]]
    ELSE d

\* Database.update_discovery_status: updates the matching row, if there is one
update_discovery_status(d, external_id, platform, status, reasoning, ok) ==
    LET row == d.discovered_posts[<<external_id, platform>>]
    IN  IF ok /\ row.status # "absent"
        THEN [d EXCEPT !.discovered_posts[<<external_id, platform>>] =
                  [status       |-> status,
                   ai_reasoning |-> IF reasoning # None THEN reasoning
                                    ELSE row.ai_reasoning]]
        ELSE d

(***************************************************************************)
(* Candidate posts.  A SocialPost is a record of the fields the validators *)
(* read; a metric that is 0 stands for the key being absent as well        *)
(* (metrics.get(key, 0)).  content_len is len(post.content), promoted is   *)
(* `"Promoted" in post.content`, media is `bool(post.media_urls)`, own is  *)
(* `post.author.username == settings.IG_USERNAME`; profile_url and        *)
(* username are post.author's, as their segments between slashes.          *)
(***************************************************************************)
SocialPost(id, platform, m) ==
    [id |-> id, platform |-> platform,
     content_len |-> m.content_len, promoted |-> m.promoted,
     media |-> m.media, own |-> m.own,
     reply_count |-> m.reply_count, comment_count |-> m.comment_count,
     likes |-> m.likes, reactions |-> m.reactions,
     reaction_count |-> m.reaction_count, comments |-> m.comments,
     profile_url |-> m.profile_url, username |-> m.username]

NoMetrics ==
    [content_len |-> 20, promoted |-> FALSE, media |-> FALSE, own |-> FALSE,
     reply_count |-> 0, comment_count |-> 0, likes |-> 0, reactions |-> 0,
     reaction_count |-> 0, comments |-> 0,
     profile_url |-> <<"in", "ana">>, username |-> <<"ana">>]

TwitterPosts ==
    { SocialPost(id, "twitter", [NoMetrics EXCEPT !.reply_count = rc]) :
        id \in PostIds, rc \in {4, 5, 50, 51} }

LinkedInPosts ==
    { SocialPost(id, "linkedin",
                 [NoMetrics EXCEPT !.content_len = c[1], !.promoted = c[2],
                                   !.likes = l[1], !.reactions = l[2],
                                   !.reaction_count = l[3],
                                   !.comments = cm]) :
        id \in PostIds,
        c \in {<<9, FALSE>>, <<10, FALSE>>, <<10, TRUE>>},
        l \in {<<0, 0, 0>>, <<0, 0, 20>>, <<0, 10, 0>>, <<9, 0, 0>>, <<10, 0, 0>>},
        cm \in {1, 2} }
    \cup
    { SocialPost(id, "linkedin",
                 [NoMetrics EXCEPT !.content_len = 10, !.likes = likes, !.comments = 1,
                                   !.profile_url = <<"company", "acme">>,
                                   !.username = <<"acme">>]) :
        id \in PostIds, likes \in {9, 10} }

InstagramPosts ==
    { SocialPost(id, "instagram",
                 [NoMetrics EXCEPT !.content_len = c, !.media = md, !.own = o]) :
        id \in PostIds, c \in {0, 20}, md \in BOOLEAN, o \in BOOLEAN }

DevToPosts ==
    { SocialPost(id, "devto", [NoMetrics EXCEPT !.comment_count = cc]) :
        id \in PostIds, cc \in {0, 1} }

\* the posts a platform's validator is given: every variation with an
\* identifier, and one post without
PostsOf(platform) ==
    LET posts == CASE platform = "twitter"   -> TwitterPosts
                   [] platform = "linkedin"  -> LinkedInPosts
                   [] platform = "instagram" -> InstagramPosts
                   [] platform = "devto"     -> DevToPosts
    IN  { p \in posts : p.id # "" } \cup {SocialPost("", platform, NoMetrics)}

(***************************************************************************)
(* Candidate validators: core/networks/*/discovery.py.  `fail` is the set  *)
(* of Record Store calls whose underlying request fails during this call.  *)
(* The result is the returned bool, the store afterwards and the store     *)
(* calls made, in order.                                                    *)
(***************************************************************************)
StoreCalls == {"log_discovery", "check_if_interacted", "update_discovery_status"}

Returned(ret, d, calls) == [ret |-> ret, db |-> d, calls |-> calls]

\* the rejection exit shared by the validators: write status "skipped" with
\* the reason, then return False
Skip(d, post, reasoning, fail, calls) ==
    Returned(FALSE,
             update_discovery_status(d, post.id, post.platform, "skipped", reasoning,
                                     "update_discovery_status" \notin fail),
             Append(calls, "update_discovery_status"))

\* LinkedIn engagement floor
MIN_LIKES == 10
MIN_COMMENTS == 2

\* the Twitter validator with the dedup check ahead of the reply window
TwitterValidateDedupFirst(d, post, fail) ==
    IF post.id = ""
    THEN Returned(FALSE, d, <<>>)
    ELSE LET d1 == log_discovery(d, post.id, post.platform,
                                 "log_discovery" \notin fail)
             reply_count == post.reply_count
             seen == <<"log_discovery", "check_if_interacted">>
         IN  IF check_if_interacted(d1, post.id, post.platform,
                                    "check_if_interacted" \notin fail)
             THEN Skip(d1, post, <<"Already interacted">>, fail, seen)
             ELSE IF reply_count < 5
             THEN Skip(d1, post, <<"Low engagement: ", reply_count, " replies">>,
                       fail, seen)
             ELSE IF reply_count > 50
             THEN Skip(d1, post, <<"Too crowded: ", reply_count, " replies">>,
                       fail, seen)
             ELSE Returned(TRUE, d1, seen)

\* the Twitter validator with a floor that excludes 5 replies
TwitterValidateAbove5(d, post, fail) ==
    IF post.id = ""
    THEN Returned(FALSE, d, <<>>)
    ELSE LET d1 == log_discovery(d, post.id, post.platform,
                                 "log_discovery" \notin fail)
             reply_count == post.reply_count
         IN  IF reply_count <= 5
             THEN Skip(d1, post, <<"Low engagement: ", reply_count, " replies">>,
                       fail, <<"log_discovery">>)
             ELSE IF reply_count > 50
             THEN Skip(d1, post, <<"Too crowded: ", reply_count, " replies">>,
                       fail, <<"log_discovery">>)
             ELSE IF check_if_interacted(d1, post.id, post.platform,
                                         "check_if_interacted" \notin fail)
             THEN Skip(d1, post, <<"Already interacted">>, fail,
                       <<"log_discovery", "check_if_interacted">>)
             ELSE Returned(TRUE, d1, <<"log_discovery", "check_if_interacted">>)

\* TwitterDiscovery.validate_candidate
TwitterValidate(d, post, fail) ==
    IF post.id = ""
    THEN Returned(FALSE, d, <<>>)
    ELSE LET d1 == log_discovery(d, post.id, post.platform,
                                 "log_discovery" \notin fail)
             reply_count == post.reply_count
         IN  IF reply_count < 5
             THEN Skip(d1, post, <<"Low engagement: ", reply_count, " replies">>,
                       fail, <<"log_discovery">>)
             ELSE IF reply_count > 50
             THEN Skip(d1, post, <<"Too crowded: ", reply_count, " replies">>,
                       fail, <<"log_discovery">>)
             ELSE IF check_if_interacted(d1, post.id, post.platform,
                                         "check_if_interacted" \notin fail)
             THEN Skip(d1, post, <<"Already interacted">>, fail,
                       <<"log_discovery", "check_if_interacted">>)
             ELSE Returned(TRUE, d1, <<"log_discovery", "check_if_interacted">>)

\* the LinkedIn validator with a floor that asks for both thresholds
LinkedInValidateBothFloors(d, post, fail) ==
    IF post.id = ""
    THEN Returned(FALSE, d, <<>>)
    ELSE LET d1 == log_discovery(d, post.id, post.platform,
                                 "log_discovery" \notin fail)
             likes == IF post.likes # 0 THEN post.likes ELSE post.reactions
             comments == post.comments
             seen == <<"log_discovery", "check_if_interacted">>
         IN  IF check_if_interacted(d1, post.id, "linkedin",
                                    "check_if_interacted" \notin fail)
             THEN Skip(d1, post, <<"Already interacted">>, fail, seen)
             ELSE IF post.content_len < 10
             THEN Skip(d1, post, <<"Low content">>, fail, seen)
             ELSE IF post.promoted
             THEN Returned(FALSE, d1, seen)
             ELSE IF likes < MIN_LIKES \/ comments < MIN_COMMENTS
             THEN Skip(d1, post,
                       <<"Low engagement: ", likes, " likes, ", comments, " comments">>,
                       fail, seen)
             ELSE Returned(TRUE, d1, seen)

\* LinkedInDiscovery.validate_candidate
LinkedInValidate(d, post, fail) ==
    IF post.id = ""
    THEN Returned(FALSE, d, <<>>)
    ELSE LET d1 == log_discovery(d, post.id, post.platform,
                                 "log_discovery" \notin fail)
             likes == IF post.likes # 0 THEN post.likes ELSE post.reactions
             comments == post.comments
             seen == <<"log_discovery", "check_if_interacted">>
         IN  IF check_if_interacted(d1, post.id, "linkedin",
                                    "check_if_interacted" \notin fail)
             THEN Skip(d1, post, <<"Already interacted">>, fail, seen)
             ELSE IF post.content_len < 10
             THEN Skip(d1, post, <<"Low content">>, fail, seen)
             ELSE IF post.promoted
             THEN Returned(FALSE, d1, seen)
             ELSE IF likes < MIN_LIKES /\ comments < MIN_COMMENTS
             THEN Skip(d1, post,
                       <<"Low engagement: ", likes, " likes, ", comments, " comments">>,
                       fail, seen)
             ELSE Returned(TRUE, d1, seen)

\* InstagramDiscovery.validate_candidate
InstagramValidate(d, post, fail) ==
    IF post.id = ""
    THEN Returned(FALSE, d, <<>>)
    ELSE IF check_if_interacted(d, post.id, post.platform,
                                "check_if_interacted" \notin fail)
    THEN Returned(FALSE, d, <<"check_if_interacted">>)
    ELSE IF post.own
    THEN Returned(FALSE, d, <<"check_if_interacted">>)
    ELSE IF post.content_len = 0 /\ ~post.media
    THEN Returned(FALSE, d, <<"check_if_interacted">>)
    ELSE Returned(TRUE, d, <<"check_if_interacted">>)

\* DevToDiscovery.validate_candidate with the identifier guard after the upsert
DevToValidateLateGuard(d, post, fail) ==
    LET d1 == log_discovery(d, post.id, post.platform, "log_discovery" \notin fail)
    IN  IF post.id = "" \/ post.comment_count = 0
        THEN Skip(d1, post, <<"No comments yet">>, fail, <<"log_discovery">>)
        ELSE IF check_if_interacted(d1, post.id, "devto",
                                    "check_if_interacted" \notin fail)
        THEN Skip(d1, post, <<"Already interacted">>, fail,
                  <<"log_discovery", "check_if_interacted">>)
        ELSE Returned(TRUE, d1, <<"log_discovery", "check_if_interacted">>)

\* DevToDiscovery.validate_candidate
DevToValidate(d, post, fail) ==
    IF post.id = ""
    THEN Returned(FALSE, d, <<>>)
    ELSE LET d1 == log_discovery(d, post.id, post.platform,
                                 "log_discovery" \notin fail)
         IN  IF post.comment_count = 0
             THEN Skip(d1, post, <<"No comments yet">>, fail, <<"log_discovery">>)
             ELSE IF check_if_interacted(d1, post.id, "devto",
                                         "check_if_interacted" \notin fail)
             THEN Skip(d1, post, <<"Already interacted">>, fail,
                       <<"log_discovery", "check_if_interacted">>)
             ELSE Returned(TRUE, d1, <<"log_discovery", "check_if_interacted">>)

\* discovery.validate_candidate(post), dispatched on the strategy object
validate_candidate(platform, d, post, fail) ==
    CASE platform = "twitter"   -> TwitterValidate(d, post, fail)
      [] platform = "linkedin"  -> LinkedInValidate(d, post, fail)
      [] platform = "instagram" -> InstagramValidate(d, post, fail)
      [] platform = "devto"     -> DevToValidate(d, post, fail)

(***************************************************************************)
(* Ranker: SocialAgent.rank_by_virality (core/agent.py).  Scores are kept  *)
(* in thousandths so that the weights 0.01 and 0.001 stay integral.        *)
(***************************************************************************)
\* a post as the ranker reads it: the three counters and the metrics keys
\* view_count, views, follower_count; 0 also stands for None and for a key
\* that is absent, which `or 0` and metrics.get(key, 0) turn into 0
RankedPost(like_count, comment_count, share_count, view_count, views, follower_count) ==
    [like_count |-> like_count, comment_count |-> comment_count,
     share_count |-> share_count, view_count |-> view_count, views |-> views,
     follower_count |-> follower_count]

\* Python's `x or 0`
OrZero(x) == IF x = 0 THEN 0 ELSE x

\* Python's `a or b` on numbers
Or(a, b) == IF OrZero(a) # 0 THEN a ELSE b

\* virality_score without the follower term (the formula of the docstring)
virality_score_docstring(item) ==
    LET post == item[1]
        likes == OrZero(post.like_count)
        comments == OrZero(post.comment_count)
        shares == OrZero(post.share_count)
        views == OrZero(Or(post.view_count, post.views))
    IN  1000 * likes + 1000 * (comments * 3) + 1000 * (shares * 5) + 10 * views

\* rank_by_virality.virality_score, times 1000
virality_score(item) ==
    LET post == item[1]
        likes == OrZero(post.like_count)
        comments == OrZero(post.comment_count)
        shares == OrZero(post.share_count)
        views == OrZero(Or(post.view_count, post.views))
        followers == OrZero(post.follower_count)
    IN  1000 * likes + 1000 * (comments * 3) + 1000 * (shares * 5)
            + 10 * views + followers

Reverse(s) == [i \in 1..Len(s) |-> s[Len(s) + 1 - i]]

\* list.sort's step for one more element, on positions: position x goes after
\* every position whose key is not greater than its own (ascending, stable)
InsertAscending(order, keys, x) ==
    LET n == Len(order)
        after == { i \in 1..n : keys[order[i]] <= keys[x] }
        k == IF after = {} THEN 0 ELSE CHOOSE i \in after : \A j \in after : j <= i
    IN  SubSeq(order, 1, k) \o <<x>> \o SubSeq(order, k + 1, n)

\* the positions 1..n in ascending order of their keys, equal keys in
\* position order
RECURSIVE StableOrder(_, _)
StableOrder(keys, n) ==
    IF n = 0 THEN <<>>
    ELSE InsertAscending(StableOrder(keys, n - 1), keys, n)

\* sorted(s, key=...) given each element's key
Sorted(s, keys) ==
    LET order == StableOrder(keys, Len(s))
    IN  [i \in 1..Len(s) |-> s[order[i]]]

\* an ascending sort turned round afterwards only: equal keys come out reversed
sorted_then_reversed(s, keys) == Reverse(Sorted(s, keys))

\* sorted(s, key=..., reverse=True): the list is reversed, sorted ascending
\* and stable, and reversed again, which keeps equal keys in their original order
sorted_reverse(s, keys) == Reverse(Sorted(Reverse(s), Reverse(keys)))

\* SocialAgent.rank_by_virality
rank_by_virality(s) == sorted_reverse(s, [i \in DOMAIN s |-> virality_score(s[i])])

\* the verdict of an approved pair
Approval == [should_engage |-> TRUE, category |-> "Technical", language |-> "en"]

RankedPosts ==
    { RankedPost(l, c, sh, v[1], v[2], f) :
        l \in {0, 3}, c \in {0, 1}, sh \in {0, 1},
        v \in {<<0, 0>>, <<100, 0>>, <<0, 100>>}, f \in {0, 1000} }

ApprovedPairs == { <<p, Approval>> : p \in RankedPosts }

BoundedSeq(S, n) == UNION { [1..k -> S] : k \in 0..n }

vRank == <<approved, ranked>>

NotRanked == [ready |-> FALSE, list |-> <<>>]

RankIdle == approved = <<>> /\ ranked = NotRanked


(***************************************************************************)
(* SocialAgent pipeline: core/chains/judge.py, core/chains/ghostwriter.py, *)
(* core/agent.py.  A call either returns a value or raises; `met` records  *)
(* what the external steps of one call do (the LLM run, the LLM-log write, *)
(* code ahead of a try block).                                             *)
(***************************************************************************)
Ok(v) == [raised |-> FALSE, value |-> v, exc |-> <<>>]
Raise(e) == [raised |-> TRUE, value |-> <<>>, exc |-> <<e>>]

\* `needle in haystack` for a path given as its segments
Contains(path, segment) == \E i \in DOMAIN path : path[i] = segment

\* JudgeVerdict
JudgeVerdict(should_engage, category, language, reasoning) ==
    [should_engage |-> should_engage, category |-> category,
     language |-> language, reasoning |-> reasoning]

\* the post fields Judge.evaluate reads: profile_url and username as paths
JudgedPost(id, platform, profile_url, username) ==
    [id |-> id, platform |-> platform, profile_url |-> profile_url,
     username |-> username]

\* Judge.evaluate's except branch approving nothing (fail-closed)
JudgeErrorFailClosed(e) ==
    Ok(JudgeVerdict(FALSE, "Other", "en", <<"Judge error (fail-open): ", e>>))

\* Judge.evaluate's except branch: approve on error
JudgeError(e) ==
    Ok(JudgeVerdict(TRUE, "Other", "en", <<"Judge error (fail-open): ", e>>))

\* Judge.evaluate(post); met.prompt: building the prompt succeeds, met.llm:
\* what self.agent.run does, met.log: db.log_llm_interaction succeeds
Judge_evaluate(post, met) ==
    IF ~met.prompt
    THEN Raise("AttributeError")
    ELSE LET is_company ==
                 \/ Contains(post.profile_url, "company")
                 \/ Contains(post.profile_url, "school")
                 \/ Contains(post.username, "posts")
         IN  IF post.platform = "linkedin" /\ is_company
             THEN Ok(JudgeVerdict(FALSE, "Other", "en",
                        <<"Hard Block: Post is from a Company or School page (not a person).">>))
             ELSE IF met.llm.kind = "raise"
             THEN JudgeError("LLM timeout")
             ELSE IF met.llm.kind = "raw"
             THEN JudgeError("'str' object has no attribute 'model_dump_json'")
             ELSE IF ~met.log
             THEN JudgeError("log_llm_interaction failed")
             ELSE Ok(met.llm.content)

\* SocialAgent.judge_all from candidate i on: the approved pairs, what each
\* Judge call returned or raised, and the store afterwards
RECURSIVE judge_from(_, _, _, _, _, _)
judge_from(i, candidates, mets, d, approved_so_far, verdicts) ==
    IF i > Len(candidates)
    THEN [approved |-> approved_so_far, verdicts |-> verdicts, db |-> d]
    ELSE LET post == candidates[i]
             r == Judge_evaluate(post, mets[i])
         IN  IF r.raised
             THEN judge_from(i + 1, candidates, mets, d, approved_so_far,
                             Append(verdicts, r))
             ELSE IF r.value.should_engage
             THEN judge_from(i + 1, candidates, mets, d,
                             Append(approved_so_far, <<post, r.value>>),
                             Append(verdicts, r))
             ELSE judge_from(i + 1, candidates, mets,
                             update_discovery_status(d, post.id, post.platform, "rejected",
                                 <<"[Judge] ">> \o r.value.reasoning, mets[i].update),
                             approved_so_far, Append(verdicts, r))

\* judge_all whose loop ends at the first candidate the Judge raises for
judge_all_until_error(candidates, mets, d) ==
    LET raising == { i \in DOMAIN candidates : Judge_evaluate(candidates[i], mets[i]).raised }
        n == IF raising = {} THEN Len(candidates)
             ELSE CHOOSE i \in raising : \A j \in raising : i <= j
    IN  judge_from(1, SubSeq(candidates, 1, n), mets, d, <<>>, <<>>)

\* SocialAgent.judge_all
judge_all(candidates, mets, d) == judge_from(1, candidates, mets, d, <<>>, <<>>)

\* GhostwriterOutput
GhostwriterOutput(comment_text, confidence_score, reasoning) ==
    [comment_text |-> comment_text, confidence_score |-> confidence_score,
     reasoning |-> reasoning]

\* ContextBuilder.build(post, verdict): the context, unless assembling it raises
ContextBuilder_build(post, verdict, met) ==
    IF met.build THEN Ok([post_id |-> post.id, platform |-> post.platform,
                          category |-> verdict.category, language |-> verdict.language])
    ELSE Raise("ValidationError")

\* Ghostwriter.write(context); met.prompt: assembling the prompt succeeds,
\* met.llm: what self.agent.run does, met.log: db.log_llm_interaction succeeds
Ghostwriter_write(context, met) ==
    IF ~met.prompt
    THEN Raise("IndexError")
    ELSE IF met.llm.kind = "raise"
    THEN Ok(GhostwriterOutput(<<>>, 0, <<"Ghostwriter error: ", "LLM timeout">>))
    ELSE IF met.llm.kind = "raw"
    THEN Ok(GhostwriterOutput(<<>>, 0,
                <<"LLM returned raw string instead of structured object.">>))
    ELSE IF ~met.log
    THEN Ok(GhostwriterOutput(<<>>, 0,
                <<"Ghostwriter error: ", "log_llm_interaction failed">>))
    ELSE Ok(met.llm.content)

\* str.strip() on a text given as its characters
RECURSIVE lstrip(_)
lstrip(text) ==
    IF text # <<>> /\ Head(text) = " " THEN lstrip(Tail(text)) ELSE text

strip(text) == Reverse(lstrip(Reverse(lstrip(text))))

\* ActionDecision
ActionDecision(should_act, confidence_score, content, reasoning, platform) ==
    [should_act |-> should_act, confidence_score |-> confidence_score,
     content |-> content, reasoning |-> reasoning, action_type |-> "comment",
     platform |-> platform]

\* the post-processing of decide_and_comment with the confidence filter
\* rejecting the threshold itself
post_processing_above_70(post, output) ==
    LET low == output.confidence_score <= 70
        reasoning1 == IF low
                      THEN <<"[Low Confidence ", ToString(output.confidence_score), "%] ">>
                               \o output.reasoning
                      ELSE output.reasoning
        empty == strip(output.comment_text) = <<>>
        reasoning2 == IF empty THEN <<"[Empty Comment] ">> \o reasoning1
                      ELSE reasoning1
    IN  ActionDecision(~low /\ ~empty, output.confidence_score, output.comment_text,
                       reasoning2, post.platform)

\* the post-processing of decide_and_comment with each tag replacing the
\* reasoning instead of prefixing it
post_processing_tag_only(post, output) ==
    LET low == output.confidence_score < 70
        reasoning1 == IF low
                      THEN <<"[Low Confidence ", ToString(output.confidence_score), "%] ">>
                      ELSE output.reasoning
        empty == strip(output.comment_text) = <<>>
        reasoning2 == IF empty THEN <<"[Empty Comment] ">> ELSE reasoning1
    IN  ActionDecision(~low /\ ~empty, output.confidence_score, output.comment_text,
                       reasoning2, post.platform)

\* the post-processing of decide_and_comment: confidence filter, then the
\* empty comment guard, each tagging the reasoning
post_processing(post, output) ==
    LET low == output.confidence_score < 70
        reasoning1 == IF low
                      THEN <<"[Low Confidence ", ToString(output.confidence_score), "%] ">>
                               \o output.reasoning
                      ELSE output.reasoning
        empty == strip(output.comment_text) = <<>>
        reasoning2 == IF empty THEN <<"[Empty Comment] ">> \o reasoning1
                      ELSE reasoning1
    IN  ActionDecision(~low /\ ~empty, output.confidence_score, output.comment_text,
                       reasoning2, post.platform)

\* decide_and_comment's except branch
ErrorDecision(exc) ==
    Ok([should_act |-> FALSE, reasoning |-> <<"Error: ">> \o exc,
        action_type |-> "comment", content |-> None, platform |-> None])

\* SocialAgent.decide_and_comment(post, verdict)
decide_and_comment(post, verdict, met) ==
    LET context == ContextBuilder_build(post, verdict, met)
    IN  IF context.raised
        THEN ErrorDecision(context.exc)
        ELSE LET output == Ghostwriter_write(context.value, met)
             IN  IF output.raised
                 THEN ErrorDecision(output.exc)
                 ELSE Ok(post_processing(post, output.value))

(***************************************************************************)
(* The parts of the state each specification leaves alone                  *)
(***************************************************************************)
NoCall ==
    [post |-> SocialPost("", "twitter", NoMetrics), ret |-> FALSE, calls |-> <<>>,
     failed |-> {}, interacted |-> FALSE, row |-> NoRow, wrote |-> FALSE,
     made |-> FALSE]

vValidate == <<discovery, call>>

vAgent == <<judgement, decision>>

NoJudgement ==
    [made |-> FALSE, candidates |-> <<>>, mets |-> <<>>, approved |-> <<>>,
     verdicts |-> <<>>]

NoDecision ==
    [made |-> FALSE, met |-> <<>>, raised |-> FALSE, value |-> <<>>]

ValidateIdle == discovery = "twitter" /\ call = NoCall

vCycle == <<networks, cycle, audit>>

\* the orchestrator outside run_cycle
NotRunning ==
    [pc |-> "idle", net |-> 0, strategies |-> <<>>, k |-> 0,
     fetched |-> <<>>, j |-> 0, valid |-> <<>>, candidates |-> <<>>, i |-> 0]

NoAudit ==
    [commented |-> [key \in Keys |-> 0], unlogged |-> [key \in Keys |-> 0],
     misread |-> {}]

CycleIdle == networks = <<>> /\ cycle = NotRunning /\ audit = NoAudit

AgentIdle == judgement = NoJudgement /\ decision = NoDecision

vStore == <<wrapper>>

NoWrapperCall ==
    [method |-> "none", key |-> <<"", "twitter">>, ok |-> TRUE, before |-> EmptyDb,
     outcome |-> Ok(None)]

StoreIdle == wrapper = NoWrapperCall

vStart == <<settings, startup, procs>>

\* settings as the deployment sets them: comments are posted
LiveSettings == [dry_run |-> FALSE]

\* start() not entered
NotStarted ==
    [pc |-> "init", registered |-> <<>>, idx |-> 0, logins |-> <<>>, running |-> TRUE,
     signalled |-> FALSE, cycles |-> 0, step |-> 0, done |-> 0]

\* no second process
NoProcs == <<>>

StartIdle == settings = LiveSettings /\ startup = NotStarted /\ procs = NoProcs

(***************************************************************************)
(* SpecValidate: one DiscoveryStrategy validating arbitrary fetched posts  *)
(* against a store in which interactions get recorded.                     *)
(***************************************************************************)
Range(s) == { s[i] : i \in DOMAIN s }

\* what is known of a finished validate_candidate call
CallRecord(d, post, fail, r) ==
    [post       |-> post,
     ret        |-> r.ret,
     calls      |-> r.calls,
     failed     |-> fail \cap Range(r.calls),
     interacted |-> d.interactions[<<post.id, post.platform>>] > 0,
     row        |-> r.db.discovered_posts[<<post.id, post.platform>>],
     wrote      |-> r.db # d,
     made       |-> TRUE]

InitValidate ==
    /\ db = EmptyDb
    /\ discovery \in SocialPlatform
    /\ call = NoCall
    /\ RankIdle
    /\ AgentIdle
    /\ CycleIdle
    /\ StoreIdle
    /\ StartIdle

\* the strategy validates one fetched post
ValidateCandidate ==
    \E post \in PostsOf(discovery), fail \in SUBSET StoreCalls :
        LET r == validate_candidate(discovery, db, post, fail)
        IN  /\ db' = r.db
            /\ call' = CallRecord(db, post, fail, r)
            /\ UNCHANGED <<discovery, vRank, vAgent, vCycle, vStore, vStart>>

\* a successful comment on a post of this platform is logged (main.py, run_cycle)
RecordInteraction ==
    \E id \in PostIds \ {""}, okInsert \in BOOLEAN, okIncrement \in BOOLEAN :
        /\ db.interactions[<<id, discovery>>] < MaxRows
        /\ db' = log_interaction(db, id, discovery, okInsert, okIncrement)
        /\ UNCHANGED <<discovery, call, vRank, vAgent, vCycle, vStore, vStart>>


NextValidate == ValidateCandidate \/ RecordInteraction

SpecValidate == InitValidate /\ [][NextValidate]_vars

(***************************************************************************)
(* SpecRank: rank_by_virality applied to every bounded list of approved    *)
(* pairs.                                                                   *)
(***************************************************************************)
InitRank ==
    /\ approved \in BoundedSeq(ApprovedPairs, MaxApproved)
    /\ ranked = NotRanked
    /\ db = EmptyDb
    /\ ValidateIdle
    /\ AgentIdle
    /\ CycleIdle
    /\ StoreIdle
    /\ StartIdle

\* Phase 2 runs on the approved pairs
RankByVirality ==
    /\ ~ranked.ready
    /\ ranked' = [ready |-> TRUE, list |-> rank_by_virality(approved)]
    /\ UNCHANGED <<approved, db, vValidate, vAgent, vCycle, vStore, vStart>>

NextRank == RankByVirality

SpecRank == InitRank /\ [][NextRank]_vars

(***************************************************************************)
(* SpecAgent: one judge_all run or one decide_and_comment call, on every   *)
(* bounded input and for everything the LLM and the store may do.          *)
(***************************************************************************)
\* the store after the candidates were validated: their rows are "seen", or
\* there are none (Instagram, or the upsert failed)
SeenDb ==
    [EmptyDb EXCEPT !.discovered_posts =
        [k \in Keys |-> IF k[1] # "" THEN [status |-> "seen", ai_reasoning |-> None]
                        ELSE NoRow]]

JudgedPosts ==
    { JudgedPost("p1", "twitter", <<"ana">>, <<"ana">>),
      JudgedPost("p1", "twitter", <<"company", "acme">>, <<"acme">>),
      JudgedPost("p1", "linkedin", <<"in", "ana">>, <<"ana">>),
      JudgedPost("p1", "linkedin", <<"company", "acme">>, <<"acme">>),
      JudgedPost("p1", "linkedin", <<"school", "mit">>, <<"mit">>),
      JudgedPost("p1", "linkedin", <<>>, <<"acme", "posts">>) }

LlmRaises == [kind |-> "raise", content |-> <<>>]
LlmRawString == [kind |-> "raw", content |-> <<>>]
LlmReturns(content) == [kind |-> "content", content |-> content]

JudgeMet(prompt, llm, log, update) ==
    [prompt |-> prompt, llm |-> llm, log |-> log, update |-> update]

\* what one Judge call can meet
JudgeMets ==
    { JudgeMet(FALSE, LlmRaises, TRUE, TRUE),
      JudgeMet(TRUE, LlmRaises, TRUE, TRUE),
      JudgeMet(TRUE, LlmRawString, TRUE, TRUE),
      JudgeMet(TRUE, LlmReturns(JudgeVerdict(FALSE, "Other", "en", <<"off topic">>)),
               FALSE, TRUE) }
    \cup { JudgeMet(TRUE, LlmReturns(JudgeVerdict(se, "Technical", "en", <<"about code">>)),
                    TRUE, up) : se \in BOOLEAN, up \in BOOLEAN }

Texts == BoundedSeq({" ", "x"}, MaxText)

GhostMet(build, prompt, llm, log) ==
    [build |-> build, prompt |-> prompt, llm |-> llm, log |-> log]

GeneratedOutputs ==
    { GhostwriterOutput(t, c, <<"adds a perspective">>) :
        t \in Texts, c \in {0, 69, 70, 100} }

\* what one decide_and_comment call can meet
GhostMets ==
    { GhostMet(FALSE, TRUE, LlmRaises, TRUE),
      GhostMet(TRUE, FALSE, LlmRaises, TRUE),
      GhostMet(TRUE, TRUE, LlmRaises, TRUE),
      GhostMet(TRUE, TRUE, LlmRawString, TRUE) }
    \cup { GhostMet(TRUE, TRUE, LlmReturns(o), log) :
             o \in GeneratedOutputs, log \in BOOLEAN }

InitAgent ==
    /\ db \in {EmptyDb, SeenDb}
    /\ AgentIdle
    /\ ValidateIdle
    /\ RankIdle
    /\ CycleIdle
    /\ StoreIdle
    /\ StartIdle

\* Phase 1 on a candidate list
JudgeAll ==
    /\ ~judgement.made /\ ~decision.made
    /\ \E candidates \in BoundedSeq(JudgedPosts, MaxJudged) :
         \E mets \in [DOMAIN candidates -> JudgeMets] :
            LET r == judge_all(candidates, mets, db)
            IN  /\ db' = r.db
                /\ judgement' = [made |-> TRUE, candidates |-> candidates,
                                 mets |-> mets, approved |-> r.approved,
                                 verdicts |-> r.verdicts]
    /\ UNCHANGED <<decision, vValidate, vRank, vCycle, vStore, vStart>>

\* Phases 3 and 4 on one approved post
DecideAndComment ==
    /\ ~judgement.made /\ ~decision.made
    /\ \E post \in JudgedPosts, met \in GhostMets :
            LET r == decide_and_comment(post, Approval, met)
            IN  decision' = [made |-> TRUE, met |-> met, raised |-> r.raised,
                             value |-> r.value]
    /\ UNCHANGED <<db, judgement, vValidate, vRank, vCycle, vStore, vStart>>

NextAgent == JudgeAll \/ DecideAndComment

SpecAgent == InitAgent /\ [][NextAgent]_vars

(***************************************************************************)
(* Spec: the orchestrator's main loop (main.py).  Each cycle walks the     *)
(* registered networks: daily limit, find_candidates (fetch a source,      *)
(* validate what it returned, fall back), then one attempt per candidate   *)
(* until a comment is posted and logged.  Clients other than Dev.to's are  *)
(* known by their interface only: a call returns its value or raises.      *)
(***************************************************************************)
\* settings.daily_interaction_limit
daily_interaction_limit == 1

\* find_candidates(limit=5)
limit == 5

\* a registered network: its platform and whether its discovery strategy was
\* constructed with a non-empty VIP list and a non-empty hashtag (topic) list
Network(platform, vip_list, hashtags) ==
    [platform |-> platform, vip_list |-> vip_list, hashtags |-> hashtags]

Registrations ==
    { <<Network(p, v, h)>> : p \in SocialPlatform \ {"linkedin"},
                             v \in BOOLEAN, h \in BOOLEAN }
    \cup { <<Network("linkedin", FALSE, h)>> : h \in BOOLEAN }
    \cup { <<Network("twitter", TRUE, FALSE), Network("instagram", FALSE, TRUE)>> }

\* settings.dry_run = True, as scripts/test_discovery_flow.py forces it
DryRunSettings == [dry_run |-> TRUE]

\* the registrations followed in a dry run
DryRunRegistrations == { <<Network("devto", FALSE, TRUE)>> }

\* the posts the platform's sources return
Fetchable(platform) ==
    { p \in PostsOf(platform) :
        /\ p.id # ""
        /\ p.reply_count \in {0, 4, 5}
        /\ p.content_len >= 10 /\ ~p.promoted
        /\ ~p.media
        /\ p.profile_url = NoMetrics.profile_url
        /\ p.platform = "linkedin" =>
               <<p.likes, p.reactions, p.reaction_count, p.comments>>
                   \in {<<9, 0, 0, 1>>, <<10, 0, 0, 1>>, <<0, 10, 0, 2>>,
                        <<0, 0, 20, 2>>} }

\* what a call of a platform client does: only Dev.to's client is known to
\* catch everything it raises
ClientOutcomes(platform) ==
    IF platform = "devto" THEN {"True", "False"} ELSE {"True", "False", "raise"}

\* what generating the comment can meet, one case per outcome of the decision
CycleMets ==
    { GhostMet(FALSE, TRUE, LlmRaises, TRUE),
      GhostMet(TRUE, TRUE, LlmRaises, TRUE),
      GhostMet(TRUE, TRUE, LlmReturns(GhostwriterOutput(<<"x">>, 69, <<"unsure">>)), TRUE),
      GhostMet(TRUE, TRUE, LlmReturns(GhostwriterOutput(<<"x">>, 70, <<"adds a perspective">>)),
               TRUE) }

\* LinkedInDiscovery._sort_by_engagement
engagement_score(post) ==
    LET likes == Or(Or(post.likes, post.reactions), post.reaction_count)
        comments == OrZero(post.comments)
    IN  likes + (comments * 3)

\* the engagement sort without reverse=True
sort_by_engagement_ascending(posts) ==
    Sorted(posts, [n \in DOMAIN posts |-> engagement_score(posts[n])])

sort_by_engagement(posts) ==
    sorted_reverse(posts, [n \in DOMAIN posts |-> engagement_score(posts[n])])

\* the candidate loop without `break`: on to the next candidate
after_comment_no_break(c) ==
    [c EXCEPT !.i = @ + 1]

\* `continue` / `break` in run_cycle's loop over the networks
NextNetwork(c) ==
    [NotRunning EXCEPT !.pc = "net", !.net = c.net + 1]

net == networks[cycle.net]

Init ==
    /\ db = EmptyDb
    /\ networks \in Registrations
    /\ cycle = NotRunning
    /\ audit = NoAudit
    /\ settings \in {LiveSettings, DryRunSettings}
    /\ settings.dry_run => networks \in DryRunRegistrations
    /\ startup = NotStarted
    /\ procs = NoProcs
    /\ ValidateIdle
    /\ RankIdle
    /\ AgentIdle
    /\ StoreIdle

\* start(): while self.running: self.run_cycle()
RunCycle ==
    /\ cycle.pc = "idle"
    /\ \A key \in Keys : audit.commented[key] < MaxComments
    /\ cycle' = [cycle EXCEPT !.pc = "net", !.net = 1]
    /\ UNCHANGED <<db, networks, audit, vValidate, vRank, vAgent, vStore, vStart>>

\* run_cycle, per network: the daily limit
CheckLimits ==
    /\ cycle.pc = "net"
    /\ cycle.net <= Len(networks)
    /\ \E ok \in BOOLEAN :
         LET current_count == get_daily_count(db, net.platform, ok)
         IN  cycle' = IF current_count >= daily_interaction_limit
                      THEN NextNetwork(cycle)
                      ELSE [NotRunning EXCEPT !.pc = "find_candidates",
                                              !.net = cycle.net]
    /\ UNCHANGED <<db, networks, audit, vValidate, vRank, vAgent, vStore, vStart>>

\* run_cycle returns after the last network
CycleFinished ==
    /\ cycle.pc = "net"
    /\ cycle.net > Len(networks)
    /\ cycle' = NotRunning
    /\ UNCHANGED <<db, networks, audit, vValidate, vRank, vAgent, vStore, vStart>>

\* find_candidates, up to its first fetch: the order of the sources
FindCandidates ==
    /\ cycle.pc = "find_candidates"
    /\ \E coin \in BOOLEAN :
         LET both == net.vip_list /\ net.hashtags
             use_vip_first == IF both THEN coin ELSE ~net.hashtags
             strategies ==
                 CASE net.platform = "linkedin" -> <<"Feed", "Topic Search">>
                   [] net.platform = "devto" ->
                        (IF net.vip_list /\ coin THEN <<"VIP">> ELSE <<>>)
                        \o (IF net.hashtags THEN <<"Tag">> ELSE <<>>)
                   [] OTHER -> IF use_vip_first THEN <<"VIP", "Hashtag">>
                               ELSE <<"Hashtag", "VIP">>
             nothing ==
                 CASE net.platform = "linkedin" -> FALSE
                   [] net.platform = "devto" -> FALSE
                   [] OTHER -> ~net.vip_list /\ ~net.hashtags
         IN  cycle' = IF nothing
                      THEN NextNetwork(cycle)
                      ELSE IF strategies = <<>>
                      THEN [cycle EXCEPT !.pc = "validate", !.j = 1]
                      ELSE [cycle EXCEPT !.pc = "fetch", !.strategies = strategies,
                                         !.k = 1]
    /\ UNCHANGED <<db, networks, audit, vValidate, vRank, vAgent, vStore, vStart>>

\* whether the source's list was configured (the feed needs none)
Configured(source) ==
    CASE source = "VIP"  -> net.vip_list
      [] source = "Feed" -> TRUE
      [] OTHER           -> net.hashtags

\* what fetching the source can give
FetchOutcomes(source) ==
    IF ~Configured(source)
    THEN {Ok(<<>>)}
    ELSE { Ok(posts) : posts \in BoundedSeq(Fetchable(net.platform), MaxFetched) }
         \cup (IF net.platform = "devto" THEN {} ELSE {Raise(<<"fetch failed">>)})

\* find_candidates: fetch_fn(amount=limit) on the current source; LinkedIn
\* catches what it raises and goes on, elsewhere the exception leaves
\* run_cycle and start() logs it and loops
Fetch ==
    /\ cycle.pc = "fetch"
    /\ \E r \in FetchOutcomes(cycle.strategies[cycle.k]) :
         cycle' =
            IF r.raised
            THEN IF net.platform = "linkedin"
                 THEN IF cycle.k < Len(cycle.strategies)
                      THEN [cycle EXCEPT !.k = @ + 1]
                      ELSE NextNetwork(cycle)
                 ELSE NotRunning
            ELSE IF net.platform = "devto" /\ r.value = <<>>
                    /\ cycle.k < Len(cycle.strategies)
            THEN [cycle EXCEPT !.k = @ + 1]
            ELSE [cycle EXCEPT !.pc = "validate", !.fetched = r.value, !.j = 1,
                               !.valid = <<>>]
    /\ UNCHANGED <<db, networks, audit, vValidate, vRank, vAgent, vStore, vStart>>

\* Dev.to stops validating once `limit` candidates are valid
Validating ==
    /\ cycle.j <= Len(cycle.fetched)
    /\ ~(net.platform = "devto" /\ Len(cycle.valid) >= limit)

\* find_candidates: validate_candidate on the next fetched post (and, on
\* Dev.to, get_post_details for a valid one)
Validate ==
    /\ cycle.pc = "validate"
    /\ Validating
    /\ \E fail \in SUBSET StoreCalls, full_post \in BOOLEAN :
         LET post == cycle.fetched[cycle.j]
             key == <<post.id, net.platform>>
             r == validate_candidate(net.platform, db, post, fail)
             read == \E n \in DOMAIN r.calls : r.calls[n] = "check_if_interacted"
             keep == r.ret /\ (net.platform = "devto" => full_post)
         IN  /\ db' = r.db
             /\ cycle' = [cycle EXCEPT !.j = @ + 1,
                            !.valid = IF keep THEN Append(@, post) ELSE @]
             /\ audit' = [audit EXCEPT
                            !.misread = IF read /\ "check_if_interacted" \in fail
                                           /\ db.interactions[key] > 0
                                        THEN @ \cup {key} ELSE @]
    /\ UNCHANGED <<networks, vValidate, vRank, vAgent, vStore, vStart>>

\* find_candidates: the source is validated; return, or fall back
Return ==
    /\ cycle.pc = "validate"
    /\ ~Validating
    /\ cycle' =
         IF cycle.valid # <<>>
         THEN [cycle EXCEPT !.pc = "candidates", !.i = 1, !.fetched = <<>>, !.j = 0,
                 !.candidates = IF net.platform = "linkedin"
                                THEN sort_by_engagement(cycle.valid)
                                ELSE cycle.valid]
         ELSE IF net.platform # "devto" /\ cycle.k < Len(cycle.strategies)
         THEN [cycle EXCEPT !.pc = "fetch", !.k = @ + 1, !.fetched = <<>>, !.j = 0]
         ELSE NextNetwork(cycle)
    /\ UNCHANGED <<db, networks, audit, vValidate, vRank, vAgent, vStore, vStart>>

\* `break  # Move to next network` once the comment is posted and logged:
\* the candidates not reached stay in `candidates` until the next discovery
after_comment(c) ==
    [c EXCEPT !.pc = "net", !.net = @ + 1]

\* run_cycle: one candidate: decide, like, comment, and log a posted comment
Interact ==
    /\ cycle.pc = "candidates"
    /\ cycle.i <= Len(cycle.candidates)
    /\ LET post == cycle.candidates[cycle.i]
           key == <<post.id, net.platform>>
           next == [cycle EXCEPT !.i = @ + 1]
       IN  \E met \in CycleMets :
             LET decided == decide_and_comment(post, Approval, met).value
             IN  IF ~decided.should_act
                 THEN cycle' = next /\ UNCHANGED <<db, audit>>
                 ELSE \E like \in ClientOutcomes(net.platform),
                         success \in ClientOutcomes(net.platform),
                         okInsert \in BOOLEAN, okIncrement \in BOOLEAN :
                        IF like = "raise" \/ success # "True"
                        THEN cycle' = next /\ UNCHANGED <<db, audit>>
                        ELSE /\ db' = log_interaction(db, post.id, net.platform,
                                                      okInsert, okIncrement)
                             /\ audit' = [audit EXCEPT
                                            !.commented[key] = @ + 1,
                                            !.unlogged[key] =
                                                IF okInsert THEN @ ELSE @ + 1]
                             /\ cycle' = after_comment(cycle)
    /\ UNCHANGED <<networks, vValidate, vRank, vAgent, vStore, vStart>>

\* run_cycle: the candidates are used up without an interaction
NoInteraction ==
    /\ cycle.pc = "candidates"
    /\ cycle.i > Len(cycle.candidates)
    /\ cycle' = NextNetwork(cycle)
    /\ UNCHANGED <<db, networks, audit, vValidate, vRank, vAgent, vStore, vStart>>

Next ==
    \/ RunCycle
    \/ CheckLimits
    \/ CycleFinished
    \/ FindCandidates
    \/ Fetch
    \/ Validate
    \/ Return
    \/ Interact
    \/ NoInteraction

Spec == Init /\ [][Next]_vars

(***************************************************************************)
(* SpecStore: the Record Store wrappers called one at a time, each         *)
(* underlying Supabase request either answering or raising.  A wrapper's   *)
(* body runs inside `try:`; what it raises reaches `except Exception`.     *)
(***************************************************************************)
\* self.client.table(...)...execute() / self.client.rpc(...).execute()
execute(ok, data) == IF ok THEN Ok(data) ELSE Raise("APIError")

\* a try block without its handler: what the body raises leaves the method
except_nothing(body, fallback) == body

\* try: body / except Exception as e: log, then return `fallback`
except_Exception(body, fallback) ==
    IF body.raised THEN Ok(fallback) ELSE body

\* Database.log_app_event: the insert into "logs", caught
Call_log_app_event(ok) == except_Exception(execute(ok, None), None)

\* Database.increment_daily_count, as a call that returns or raises
Call_increment_daily_count(ok) == except_Exception(execute(ok, None), None)

\* Database.log_interaction: the handler itself calls log_app_event
Call_log_interaction(okInsert, okIncrement, okLog) ==
    LET insert == execute(okInsert, None)
        body == IF insert.raised THEN insert
                ELSE Call_increment_daily_count(okIncrement)
        handler == Call_log_app_event(okLog)
    IN  IF body.raised
        THEN IF handler.raised THEN handler ELSE Ok(None)
        ELSE Ok(None)

\* Database.get_daily_count: the day's interaction_count, 0 without a row
Call_get_daily_count(d, platform, ok) ==
    except_Exception(execute(ok, d.daily_stats[platform]), 0)

\* Database.check_if_interacted: len(res.data) > 0
Call_check_if_interacted(d, post_id, platform, ok) ==
    LET res == execute(ok, d.interactions[<<post_id, platform>>])
    IN  except_Exception(IF res.raised THEN res ELSE Ok(res.value > 0), FALSE)

\* Database.log_discovery: the id of the upserted row
Call_log_discovery(post_id, platform, ok) ==
    except_Exception(execute(ok, <<post_id, platform>>), None)

\* Database.update_discovery_status
Call_update_discovery_status(ok) == except_Exception(execute(ok, None), None)

\* the platforms and reasons the wrappers are exercised with
StorePlatforms == {"twitter", "devto"}
StoreReasons == {None, <<"Already interacted">>}

\* what is known of a finished wrapper call
WrapperCall(method, post_id, platform, ok, outcome) ==
    [method |-> method, key |-> <<post_id, platform>>, ok |-> ok, before |-> db,
     outcome |-> outcome]

InitStore ==
    /\ db = EmptyDb
    /\ wrapper = NoWrapperCall
    /\ ValidateIdle
    /\ RankIdle
    /\ AgentIdle
    /\ CycleIdle
    /\ StartIdle

LogInteraction ==
    \E id \in PostIds \ {""}, p \in StorePlatforms,
       okInsert \in BOOLEAN, okIncrement \in BOOLEAN, okLog \in BOOLEAN :
        /\ db.interactions[<<id, p>>] < MaxRows
        /\ db' = log_interaction(db, id, p, okInsert, okIncrement)
        /\ wrapper' = WrapperCall("log_interaction", id, p,
                                  okInsert /\ okIncrement,
                                  Call_log_interaction(okInsert, okIncrement, okLog))
        /\ UNCHANGED <<vValidate, vRank, vAgent, vCycle, vStart>>

IncrementDailyCount ==
    \E p \in StorePlatforms, ok \in BOOLEAN :
        /\ db.daily_stats[p] < MaxRows
        /\ db' = increment_daily_count(db, p, ok)
        /\ wrapper' = WrapperCall("increment_daily_count", "", p, ok,
                                  Call_increment_daily_count(ok))
        /\ UNCHANGED <<vValidate, vRank, vAgent, vCycle, vStart>>

GetDailyCount ==
    \E p \in StorePlatforms, ok \in BOOLEAN :
        /\ wrapper' = WrapperCall("get_daily_count", "", p, ok,
                                  Call_get_daily_count(db, p, ok))
        /\ UNCHANGED <<db, vValidate, vRank, vAgent, vCycle, vStart>>

CheckIfInteracted ==
    \E id \in PostIds \ {""}, p \in StorePlatforms, ok \in BOOLEAN :
        /\ wrapper' = WrapperCall("check_if_interacted", id, p, ok,
                                  Call_check_if_interacted(db, id, p, ok))
        /\ UNCHANGED <<db, vValidate, vRank, vAgent, vCycle, vStart>>

LogDiscovery ==
    \E id \in PostIds \ {""}, p \in StorePlatforms, ok \in BOOLEAN :
        /\ db' = log_discovery(db, id, p, ok)
        /\ wrapper' = WrapperCall("log_discovery", id, p, ok,
                                  Call_log_discovery(id, p, ok))
        /\ UNCHANGED <<vValidate, vRank, vAgent, vCycle, vStart>>

UpdateDiscoveryStatus ==
    \E id \in PostIds \ {""}, p \in StorePlatforms, reasoning \in StoreReasons,
       ok \in BOOLEAN :
        /\ db' = update_discovery_status(db, id, p, "skipped", reasoning, ok)
        /\ wrapper' = WrapperCall("update_discovery_status", id, p, ok,
                                  Call_update_discovery_status(ok))
        /\ UNCHANGED <<vValidate, vRank, vAgent, vCycle, vStart>>

NextStore ==
    \/ LogInteraction
    \/ IncrementDailyCount
    \/ GetDailyCount
    \/ CheckIfInteracted
    \/ LogDiscovery
    \/ UpdateDiscoveryStatus

SpecStore == InitStore /\ [][NextStore]_vars

(***************************************************************************)
(* SpecRace: two orchestrator processes against one Record Store, both     *)
(* having fetched the same post.  Each validates it (the dedup read is in  *)
(* validate_candidate), then decides and comments, then logs the           *)
(* interaction; the steps of the two interleave freely.                    *)
(***************************************************************************)
Pids == {1, 2}

\* a process about to validate the post it fetched
Process(post) ==
    [post |-> post, pc |-> "validate", read |-> FALSE, found |-> 0,
     inserted |-> FALSE]

InitRace ==
    /\ db = EmptyDb
    /\ procs \in { <<Process(post), Process(post)>> :
                      post \in UNION { Fetchable(platform) : platform \in SocialPlatform } }
    /\ settings = LiveSettings
    /\ startup = NotStarted
    /\ ValidateIdle
    /\ RankIdle
    /\ AgentIdle
    /\ CycleIdle
    /\ StoreIdle

\* find_candidates: validate_candidate on the fetched post
RaceValidate(pid) ==
    /\ procs[pid].pc = "validate"
    /\ \E fail \in SUBSET StoreCalls :
         LET post == procs[pid].post
             r == validate_candidate(post.platform, db, post, fail)
             read == /\ \E n \in DOMAIN r.calls : r.calls[n] = "check_if_interacted"
                     /\ "check_if_interacted" \notin fail
         IN  /\ db' = r.db
             /\ procs' = [procs EXCEPT ![pid].pc = IF r.ret THEN "candidate" ELSE "done",
                                       ![pid].read = read,
                                       ![pid].found =
                                           IF read
                                           THEN db.interactions[<<post.id, post.platform>>]
                                           ELSE 0]
    /\ UNCHANGED <<settings, startup, vValidate, vRank, vAgent, vCycle, vStore>>

\* run_cycle: decide_and_comment, like_post, post_comment on the candidate
RaceComment(pid) ==
    /\ procs[pid].pc = "candidate"
    /\ \E met \in CycleMets, like \in ClientOutcomes(procs[pid].post.platform),
          success \in ClientOutcomes(procs[pid].post.platform) :
         LET decided == decide_and_comment(procs[pid].post, Approval, met).value
             posted == decided.should_act /\ like # "raise" /\ success = "True"
         IN  procs' = [procs EXCEPT ![pid].pc = IF posted THEN "commented" ELSE "done"]
    /\ UNCHANGED <<db, settings, startup, vValidate, vRank, vAgent, vCycle, vStore>>

\* run_cycle: db.log_interaction for the posted comment
RaceLog(pid) ==
    /\ procs[pid].pc = "commented"
    /\ \E okInsert \in BOOLEAN, okIncrement \in BOOLEAN :
         LET post == procs[pid].post
         IN  /\ db' = log_interaction(db, post.id, post.platform, okInsert, okIncrement)
             /\ procs' = [procs EXCEPT ![pid].pc = "done", ![pid].inserted = okInsert]
    /\ UNCHANGED <<settings, startup, vValidate, vRank, vAgent, vCycle, vStore>>

NextRace ==
    \E pid \in Pids :
        \/ RaceValidate(pid)
        \/ RaceComment(pid)
        \/ RaceLog(pid)

SpecRace == InitRace /\ [][NextRace]_vars

(***************************************************************************)
(* SpecStart: start() from the login loop on (main.py 51-79), with the     *)
(* SIGINT/SIGTERM handler stop() installed.  run_cycle is followed network *)
(* by network through the steps of its first candidate.                    *)
(***************************************************************************)
\* most networks registered, and most cycles the main loop is followed for
MaxNetworks == 3
MaxCycles == 2

\* the registered lists: distinct platforms, any order
RegisteredLists ==
    { s \in BoundedSeq(SocialPlatform, MaxNetworks) :
        /\ s # <<>>
        /\ \A m, n \in DOMAIN s : m # n => s[m] # s[n] }

\* list.remove(x): the list without its first element equal to x
Remove(s, x) ==
    LET at == CHOOSE n \in DOMAIN s : s[n] = x /\ \A m \in 1..(n - 1) : s[m] # x
    IN  [n \in 1..(Len(s) - 1) |-> IF n < at THEN s[n] ELSE s[n + 1]]

\* `for net in self.networks:` the list iterator's next position, whatever
\* was removed from the list meanwhile
login_next(s) ==
    s.idx + 1

\* what run_cycle does for one network, in order
CycleSteps == <<"discover", "decide", "like", "comment", "log">>

InitStart ==
    /\ networks \in { [n \in DOMAIN s |-> Network(s[n], TRUE, TRUE)] : s \in RegisteredLists }
    /\ startup = [NotStarted EXCEPT !.pc = "login", !.registered = networks]
    /\ settings = LiveSettings
    /\ procs = NoProcs
    /\ db = EmptyDb
    /\ cycle = NotRunning
    /\ audit = NoAudit
    /\ ValidateIdle
    /\ RankIdle
    /\ AgentIdle
    /\ StoreIdle

\* for net in self.networks: if not client.login(): self.networks.remove(net)
Login ==
    /\ startup.pc = "login"
    /\ login_next(startup) <= Len(networks)
    /\ \E ok \in BOOLEAN :
         LET at == login_next(startup)
             this == networks[at]
         IN  /\ networks' = IF ok THEN networks ELSE Remove(networks, this)
             /\ startup' = [startup EXCEPT
                              !.idx = at,
                              !.logins = Append(@, [platform |-> this.platform, ok |-> ok])]
    /\ UNCHANGED <<db, cycle, audit, settings, procs, vValidate, vRank, vAgent, vStore>>

\* the iterator is exhausted; `if not self.networks: return`
LoginDone ==
    /\ startup.pc = "login"
    /\ login_next(startup) > Len(networks)
    /\ startup' = [startup EXCEPT !.pc = IF networks = <<>> THEN "exited" ELSE "loop",
                                  !.idx = 0]
    /\ UNCHANGED <<db, networks, cycle, audit, settings, procs, vValidate, vRank, vAgent,
                   vStore>>

\* while self.running: self.run_cycle()
LoopCheck ==
    /\ startup.pc = "loop"
    /\ startup.running => startup.cycles < MaxCycles
    /\ startup' = IF startup.running
                  THEN [startup EXCEPT !.pc = "cycle", !.cycles = @ + 1, !.idx = 1,
                                       !.step = 1]
                  ELSE [startup EXCEPT !.pc = "exited"]
    /\ UNCHANGED <<db, networks, cycle, audit, settings, procs, vValidate, vRank, vAgent,
                   vStore>>

\* run_cycle: the next step for the current network, then the next network;
\* after the last one run_cycle returns and start() sleeps
CycleStep ==
    /\ startup.pc = "cycle"
    /\ startup' =
         IF startup.step < Len(CycleSteps)
         THEN [startup EXCEPT !.step = @ + 1]
         ELSE IF startup.idx < Len(networks)
         THEN [startup EXCEPT !.idx = @ + 1, !.step = 1]
         ELSE [startup EXCEPT !.pc = "sleep", !.idx = 0, !.step = 0, !.done = @ + 1]
    /\ UNCHANGED <<db, networks, cycle, audit, settings, procs, vValidate, vRank, vAgent,
                   vStore>>

\* time.sleep(short_sleep) returns
Wake ==
    /\ startup.pc = "sleep"
    /\ startup' = [startup EXCEPT !.pc = "loop"]
    /\ UNCHANGED <<db, networks, cycle, audit, settings, procs, vValidate, vRank, vAgent,
                   vStore>>

\* the statement the signal interrupts sits inside a bare `except:` (the
\* status writes of LinkedIn's validate_candidate)
InBareExcept ==
    /\ startup.pc = "cycle"
    /\ CycleSteps[startup.step] = "discover"
    /\ networks[startup.idx].platform = "linkedin"

\* SIGINT / SIGTERM: stop() runs in the main thread at the interrupted
\* statement: self.running = False, client.stop() for each network, then
\* sys.exit(0); SystemExit passes `except Exception` and ends the process
\* unless a bare `except:` around the interrupted statement swallows it
Stop ==
    /\ startup.pc \in {"login", "loop", "cycle", "sleep"}
    /\ ~startup.signalled
    /\ \E swallowed \in {FALSE, InBareExcept} :
         startup' = [startup EXCEPT !.running = FALSE, !.signalled = TRUE,
                                    !.pc = IF swallowed THEN @ ELSE "exited"]
    /\ UNCHANGED <<db, networks, cycle, audit, settings, procs, vValidate, vRank, vAgent,
                   vStore>>

NextStart ==
    \/ Login
    \/ LoginDone
    \/ LoopCheck
    \/ CycleStep
    \/ Wake
    \/ Stop

SpecStart == InitStart /\ [][NextStart]_vars

(***************************************************************************)
(* Validator claims, checked under SpecValidate                            *)
(***************************************************************************)
\* number of times the store call `name` was made during the last validation
Made(name) == Cardinality({ i \in DOMAIN call.calls : call.calls[i] = name })

\* C1: every validator, given a post whose identifier is empty, returns False
\* and makes no Record Store call: no upsert, no status update, no lookup, and
\* the store is left as it was.
C1_EmptyIdNoStoreCall ==
    (call.made /\ call.post.id = "")
        => (call.ret = FALSE /\ call.calls = <<>> /\ ~call.wrote)

\* an empty-identifier post was validated against a store that already holds rows
C1_Witness ==
    /\ call.made
    /\ call.post.id = ""
    /\ \E k \in Keys : db.interactions[k] > 0 /\ db.discovered_posts[k].status # "absent"

\* C2 as claimed: every validator, given a post with an identifier and an
\* existing InteractionRecord for (post_id, platform), returns False and leaves
\* the post's discovery record with status "skipped" (stated for validations
\* in which every store call succeeded).
C2_InteractedIsSkipped ==
    (call.made /\ call.post.id # "" /\ call.interacted /\ call.failed = {})
        => (call.ret = FALSE /\ call.row.status = "skipped")

\* C10 as claimed: every validator, given a post with an identifier, performs
\* the discovery upsert exactly once before it returns.
C10_UpsertExactlyOnce ==
    (call.made /\ call.post.id # "") => Made("log_discovery") = 1

(***************************************************************************)
(* Ranker claims, checked under SpecRank                                   *)
(***************************************************************************)
Bijections(n) == { f \in [1..n -> 1..n] : \A a, b \in 1..n : f[a] = f[b] => a = b }

Metrics5(item) ==
    <<item[1].like_count, item[1].comment_count, item[1].share_count,
      item[1].view_count + item[1].views, item[1].follower_count>>

\* b has more of exactly one metric than a and as much of the other four
OneMetricMore(a, b) ==
    \E k \in 1..5 :
        /\ Metrics5(a)[k] < Metrics5(b)[k]
        /\ \A o \in (1..5) \ {k} : Metrics5(a)[o] = Metrics5(b)[o]

Blank(text) == \A i \in DOMAIN text : text[i] = " "

GenerationRaised(met) ==
    ~met.build \/ ~met.prompt \/ met.llm.kind = "raise"

HardBlocked(post) ==
    /\ post.platform = "linkedin"
    /\ \/ Contains(post.profile_url, "company")
       \/ Contains(post.profile_url, "school")
       \/ Contains(post.username, "posts")

\* C9: when the Judge's LLM call raises, Judge.evaluate returns a verdict
\* with should_engage = True whose reasoning starts with "Judge error
\* (fail-open)", and judge_all has that post among the approved pairs.
C9_JudgeFailsOpen ==
    judgement.made =>
        \A i \in DOMAIN judgement.candidates :
            ( /\ judgement.mets[i].prompt
              /\ ~HardBlocked(judgement.candidates[i])
              /\ judgement.mets[i].llm.kind = "raise" )
            => /\ ~judgement.verdicts[i].raised
               /\ judgement.verdicts[i].value.should_engage
               /\ Head(judgement.verdicts[i].value.reasoning)
                      = "Judge error (fail-open): "
               /\ \E k \in DOMAIN judgement.approved :
                     judgement.approved[k]
                         = <<judgement.candidates[i], judgement.verdicts[i].value>>

\* of two candidates the LLM call raised for the first and rejected the
\* second: the first alone is approved
C9_Witness ==
    /\ judgement.made
    /\ Len(judgement.candidates) = 2
    /\ judgement.candidates[1].platform = "linkedin"
    /\ judgement.mets[1].prompt /\ judgement.mets[1].llm.kind = "raise"
    /\ judgement.mets[2].llm.kind = "content"
    /\ ~judgement.verdicts[2].raised
    /\ ~judgement.verdicts[2].value.should_engage
    /\ Len(judgement.approved) = 1
    /\ judgement.approved[1][1] = judgement.candidates[1]

Advanced == Statuses \ {"seen"}

\* C11 as claimed: once a discovery record has status skipped, rejected,
\* approved, commented or posted, no step sets its status back to "seen"
C11_StatusNeverRegresses ==
    [][\A key \in Keys :
          db.discovered_posts[key].status \in Advanced
              => db'.discovered_posts[key].status # "seen"]_vars

(***************************************************************************)
(* Engagement floors, checked under SpecValidate                           *)
(***************************************************************************)
\* the last call was the platform's validator on a post that has an
\* identifier and that the dedup check did not find recorded
PassedDedup(platform) ==
    /\ call.made /\ call.post.platform = platform /\ call.post.id # ""
    /\ ~(call.interacted /\ "check_if_interacted" \notin call.failed)

\* a LinkedIn post that passes every check but the engagement floor
PassesOtherLinkedInChecks ==
    /\ PassedDedup("linkedin")
    /\ call.post.content_len >= 10 /\ ~call.post.promoted

\* C12 as claimed, on the post's likes metric: accepted if and only if
\* likes >= 10 or comments >= 2
C12_FloorOnLikesMetric ==
    PassesOtherLinkedInChecks
        => (call.ret <=> (call.post.likes >= 10 \/ call.post.comments >= 2))

\* C12: a LinkedIn post that passes every other check is accepted if and only
\* if its like count is at least 10 or its comment count at least 2, the like
\* count being the likes metric or, when that is absent or zero, reactions
C12_FloorIsLikesOrComments ==
    PassesOtherLinkedInChecks
        => (call.ret <=> (Or(call.post.likes, call.post.reactions) >= 10
                          \/ call.post.comments >= 2))

\* likes = 0, comments = 2 is accepted
C12_Witness ==
    /\ PassesOtherLinkedInChecks
    /\ call.post.likes = 0 /\ call.post.reactions = 0 /\ call.post.comments = 2
    /\ call.ret

\* the discovery record of a post skipped with the reason
Skipped(reasoning) == [status |-> "skipped", ai_reasoning |-> reasoning]

\* C13: a Twitter post with an identifier and no recorded interaction is
\* accepted if and only if 5 <= reply_count <= 50; when the store calls of
\* the validation succeed, fewer than 5 replies leave the record "skipped"
\* with a "Low engagement" reason and more than 50 with a "Too crowded" reason
C13_TwitterReplyWindow ==
    PassedDedup("twitter") =>
        LET reply_count == call.post.reply_count
        IN  /\ call.ret <=> (5 <= reply_count /\ reply_count <= 50)
            /\ (call.failed = {} /\ reply_count < 5) =>
                   call.row = Skipped(<<"Low engagement: ", reply_count, " replies">>)
            /\ (call.failed = {} /\ reply_count > 50) =>
                   call.row = Skipped(<<"Too crowded: ", reply_count, " replies">>)

\* a post with 51 replies was rejected as too crowded
C13_Witness ==
    /\ PassedDedup("twitter")
    /\ call.post.reply_count = 51 /\ ~call.ret
    /\ call.row = Skipped(<<"Too crowded: ", 51, " replies">>)

(***************************************************************************)
(* Discovery strategy claims, checked under Spec                           *)
(***************************************************************************)
\* find_candidates has validated everything its current source returned
SourceValidated == cycle.pc = "validate" /\ ~Validating /\ cycle.strategies # <<>>

\* the current source is the primary one and the secondary list is configured
SecondaryWaiting ==
    /\ cycle.k = 1 /\ Len(cycle.strategies) = 2
    /\ Configured(cycle.strategies[2])

\* what C14 asks of find_candidates on the platforms in the set, once a
\* source is validated: a primary source without a validated candidate is
\* followed by the query of a configured secondary source, and a source with
\* validated candidates ends the search with exactly those
FallsBack(platforms) ==
    (SourceValidated /\ net.platform \in platforms) =>
        /\ (cycle.valid = <<>> /\ SecondaryWaiting) =>
               (cycle'.pc = "fetch" /\ cycle'.k = 2)
        /\ cycle.valid # <<>> =>
               (cycle'.pc = "candidates" /\ cycle'.candidates = cycle.valid)

\* C14 as claimed: on Instagram, Twitter and Dev.to, find_candidates queries
\* the configured secondary source whenever the primary one yielded no
\* validated candidate, and never after the primary yielded one
C14_FallbackToSecondary ==
    [][FallsBack({"instagram", "twitter", "devto"})]_vars

\* rows of the interactions table for the platform (all of one calendar day)
RECURSIVE RecordedFor(_, _, _)
RecordedFor(d, platform, ids) ==
    IF ids = {} THEN 0
    ELSE LET id == CHOOSE x \in ids : TRUE
         IN  d.interactions[<<id, platform>>] + RecordedFor(d, platform, ids \ {id})

\* run_cycle is about to read the daily counter of a network whose counter
\* is at or above the ceiling
AtCeiling ==
    /\ cycle.pc = "net" /\ cycle.net <= Len(networks)
    /\ db.daily_stats[net.platform] >= daily_interaction_limit

\* C15 as claimed: run_cycle goes on to the next network, without discovery,
\* like, comment or logging, when the platform's daily counter is at or above
\* the ceiling, and the interactions recorded for a platform never exceed the
\* ceiling by more than one
C15_NoActivityAtCeiling ==
    [][/\ AtCeiling => (cycle'.pc = "net" /\ cycle'.net = cycle.net + 1 /\ db' = db)
       /\ \A platform \in SocialPlatform :
             RecordedFor(db', platform, PostIds) <= daily_interaction_limit + 1]_vars

(***************************************************************************)
(* Decision claims, checked under SpecAgent                                *)
(***************************************************************************)
\* the last decide_and_comment call got an output from Ghostwriter.write
Generated == decision.made /\ decision.met.build /\ decision.met.prompt

\* that output, as the Ghostwriter returned it
Original == Ghostwriter_write(None, decision.met).value

LowTag == <<"[Low Confidence ", ToString(Original.confidence_score), "%] ">>

EmptyTag == <<"[Empty Comment] ">>

LinkedInSearch ==
    /\ cycle.pc \in {"fetch", "validate", "candidates"}
    /\ net.platform = "linkedin"

\* likes + 3 * comments, reactions or reaction_count standing in for likes
\* that are absent or zero
ScoreOf(post) ==
    (IF post.likes # 0 THEN post.likes
     ELSE IF post.reactions # 0 THEN post.reactions
     ELSE post.reaction_count) + 3 * post.comments

\* the list find_candidates returned holds exactly the validated candidates
\* of the source in non-increasing order of score
ReturnedSorted ==
    /\ Len(cycle.candidates) = Len(cycle.valid)
    /\ \E f \in Bijections(Len(cycle.valid)) :
          \A n \in DOMAIN cycle.valid : cycle.candidates[n] = cycle.valid[f[n]]
    /\ \A m, n \in DOMAIN cycle.candidates :
          m < n => ScoreOf(cycle.candidates[m]) >= ScoreOf(cycle.candidates[n])

LowEngagement(post) ==
    <<"Low engagement: ", Or(post.likes, post.reactions), " likes, ",
      post.comments, " comments">>

\* C18 as claimed: a LinkedIn post of a company or school page meets the hard
\* block before the engagement floor, so it is never rejected with an
\* engagement reason (stated for validations whose store calls succeed)
C18_CompanyNeverEngagementReason ==
    (call.made /\ call.post.id # "" /\ HardBlocked(call.post) /\ call.failed = {})
        => call.row # Skipped(LowEngagement(call.post))

\* the post fails a check of its platform's validator other than the
\* identifier and dedup checks
FailsOwnCheck(post) ==
    CASE post.platform = "twitter"   -> post.reply_count < 5 \/ post.reply_count > 50
      [] post.platform = "devto"     -> post.comment_count = 0
      [] post.platform = "linkedin"  ->
            \/ post.content_len < 10
            \/ post.promoted
            \/ (Or(post.likes, post.reactions) < MIN_LIKES
                /\ post.comments < MIN_COMMENTS)
      [] post.platform = "instagram" ->
            post.own \/ (post.content_len = 0 /\ ~post.media)

\* the reason the Twitter and Dev.to validators persist for such a post
OwnReason(post) ==
    CASE post.platform = "devto"  -> <<"No comments yet">>
      [] post.reply_count < 5     -> <<"Low engagement: ", post.reply_count, " replies">>
      [] OTHER                    -> <<"Too crowded: ", post.reply_count, " replies">>

\* the last call validated a post with an identifier
Validated == call.made /\ call.post.id # ""

\* C19 as claimed: in every validator dedup comes last, so a post failing
\* the engagement, content, promotional or self-authorship check is rejected
\* without the interactions table being queried
C19_DedupLastEverywhere ==
    (Validated /\ FailsOwnCheck(call.post))
        => (~call.ret /\ Made("check_if_interacted") = 0)

\* C19: the validators stop at the first failing check.  On Twitter and
\* Dev.to dedup is last: a post failing the engagement floor is rejected with
\* the floor's reason and the interactions table is not queried.  On LinkedIn
\* and Instagram dedup is first: the table is queried once for every post with
\* an identifier, and a post failing a later check is rejected
C19_FailFastDedupLastOnTwitterDevTo ==
    Validated =>
        IF call.post.platform \in {"twitter", "devto"}
        THEN FailsOwnCheck(call.post) =>
                /\ ~call.ret
                /\ Made("check_if_interacted") = 0
                /\ call.failed = {} => call.row = Skipped(OwnReason(call.post))
        ELSE /\ Made("check_if_interacted") = 1
             /\ FailsOwnCheck(call.post) => ~call.ret
             /\ (call.interacted /\ call.failed = {} /\ call.post.platform = "linkedin")
                    => call.row = Skipped(<<"Already interacted">>)

\* an already recorded Twitter post with 4 replies was rejected for low
\* engagement without the dedup read
C19_Witness ==
    /\ Validated /\ call.post.platform = "twitter" /\ call.interacted
    /\ call.post.reply_count = 4
    /\ call.calls = <<"log_discovery", "update_discovery_status">>
    /\ call.row = Skipped(OwnReason(call.post))

\* C20 as claimed: for a post with an identifier, a validator that returns
\* False has written a non-empty reason to the post's discovery record, and
\* one that returns True leaves the record "seen" and writes no reason
\* (stated for validations whose store calls succeed)
C20_RejectionWritesReason ==
    (Validated /\ call.failed = {}) =>
        IF call.ret
        THEN /\ call.row.status = "seen"
             /\ Made("update_discovery_status") = 0
        ELSE /\ Made("update_discovery_status") = 1
             /\ call.row.status = "skipped"
             /\ call.row.ai_reasoning # None

(***************************************************************************)
(* Error-handling and loop claims of the cycle, checked under Spec         *)
(***************************************************************************)
\* C21 as claimed: a fetch that raises during discovery is confined to its
\* source attempt: whatever the fetch does, the orchestrator stays inside
\* run_cycle, on the same network (next source, or validating what was
\* fetched) or moving on to the next network of the cycle
C21_FetchFailureConfined ==
    [][cycle.pc = "fetch" =>
          /\ cycle'.pc \in {"fetch", "validate", "net"}
          /\ cycle'.net \in {cycle.net, cycle.net + 1}]_vars

(***************************************************************************)
(* Record Store claims, checked under SpecStore                            *)
(***************************************************************************)
\* C22: no Record Store wrapper raises when its underlying store call fails:
\* check_if_interacted returns False, get_daily_count returns 0,
\* log_discovery returns None, and log_interaction, increment_daily_count
\* and update_discovery_status return normally
C22_WrappersNeverRaise ==
    /\ ~wrapper.outcome.raised
    /\ ~wrapper.ok =>
          /\ wrapper.method = "check_if_interacted" => wrapper.outcome.value = FALSE
          /\ wrapper.method = "get_daily_count" => wrapper.outcome.value = 0
          /\ wrapper.method \in {"log_discovery", "log_interaction",
                                 "increment_daily_count", "update_discovery_status"}
                => wrapper.outcome.value = None

\* a dedup read fails for a post that has an interaction record, and a
\* counter read fails for a platform that has interactions counted
C22_Witness ==
    /\ ~wrapper.ok
    /\ \/ /\ wrapper.method = "check_if_interacted"
          /\ wrapper.before.interactions[wrapper.key] > 0
          /\ wrapper.outcome = Ok(FALSE)
       \/ /\ wrapper.method = "get_daily_count"
          /\ wrapper.before.daily_stats[wrapper.key[2]] > 0
          /\ wrapper.outcome = Ok(0)

\* C23: in run_cycle's candidate loop the first candidate whose comment is
\* posted ends the platform's turn (no further candidate of it is analysed,
\* liked or commented in the cycle), while a candidate that is skipped,
\* fails to post or raises leaves the store alone and hands over to the next
\* candidate in order
C23_OneInteractionPerPlatformPerCycle ==
    [][(cycle.pc = "candidates" /\ cycle.i <= Len(cycle.candidates)) =>
          LET key == <<cycle.candidates[cycle.i].id, net.platform>>
          IN  IF audit'.commented[key] > audit.commented[key]
              THEN /\ cycle' = [cycle EXCEPT !.pc = "net", !.net = @ + 1]
                   /\ \A k \in Keys \ {key} : audit'.commented[k] = audit.commented[k]
                   /\ audit'.commented[key] = audit.commented[key] + 1
              ELSE /\ cycle' = [cycle EXCEPT !.i = @ + 1]
                   /\ db' = db
                   /\ audit' = audit]_vars

\* a comment was posted on the first of two candidates and the orchestrator
\* is on its way to the next network, the second candidate left alone
C23_Witness ==
    /\ cycle.pc = "net"
    /\ Len(cycle.candidates) = 2
    /\ cycle.i = 1
    /\ \E key \in Keys : audit.commented[key] = 1

\* the InteractionRecords inserted for the platform
RecordsOf(platform) == db.interactions[<<"", platform>>] + db.interactions[<<"p1", platform>>]

\* C24 as claimed (checked under SpecValidate, whose only writer of the two
\* tables is log_interaction): after any sequence of log_interaction calls
\* the day's counter of a platform equals the number of InteractionRecords
\* inserted for that platform
C24_CounterEqualsRecords ==
    \A platform \in SocialPlatform : db.daily_stats[platform] = RecordsOf(platform)

(***************************************************************************)
(* Concurrency claim, checked under SpecRace                               *)
(***************************************************************************)
\* the (post_id, platform) both processes work on
RaceKey == <<procs[1].post.id, procs[1].post.platform>>

\* C25: the dedup check and the insert are not atomic across processes: a
\* process that reads a record for the key goes no further, but nothing
\* stands between a passed check and the insert, so the store holds one
\* InteractionRecord per process whose insert went through, two for one key
\* when both processes read "not interacted" before either inserted
C25_CheckThenInsertNotAtomic ==
    /\ db.interactions[RaceKey]
          = Cardinality({ pid \in Pids : procs[pid].inserted })
    /\ \A pid \in Pids :
          (procs[pid].read /\ procs[pid].found > 0)
              => procs[pid].pc = "done" /\ ~procs[pid].inserted

\* both processes read the interactions table without error, found no row,
\* commented, and inserted: two InteractionRecords for one key
C25_Witness ==
    /\ \A pid \in Pids : /\ procs[pid].read
                         /\ procs[pid].found = 0
                         /\ procs[pid].inserted
                         /\ procs[pid].pc = "done"
    /\ db.interactions[RaceKey] = 2

(***************************************************************************)
(* Start-up and shutdown claims, checked under SpecStart                   *)
(***************************************************************************)
\* C26 as claimed: cancellation is coarse-grained: the stop handler only
\* makes the main loop end at the next cycle boundary, so every cycle that
\* was started has run to completion when the process is gone, and no cycle
\* starts once the signal has arrived
C26_CycleInProgressCompletes ==
    /\ []((startup.signalled /\ startup.pc = "exited")
             => startup.done = startup.cycles)
    /\ [][startup.signalled => startup'.cycles = startup.cycles]_vars

\* login() was called on the platform and returned `ok`
LoggedIn(platform, ok) ==
    \E n \in DOMAIN startup.logins :
        startup.logins[n] = [platform |-> platform, ok |-> ok]

\* C30 as claimed: when the start-up login loop finishes, login() has been
\* called on every registered network, every network whose login() returned
\* False is gone from the active list, and every network left in the active
\* list returned True from login()
C30_LoginLoopFiltersNetworks ==
    (startup.pc \in {"loop", "cycle", "sleep"}) =>
        /\ \A n \in DOMAIN startup.registered :
              \E ok \in BOOLEAN : LoggedIn(startup.registered[n].platform, ok)
        /\ \A n \in DOMAIN networks :
              /\ LoggedIn(networks[n].platform, TRUE)
              /\ ~LoggedIn(networks[n].platform, FALSE)

(***************************************************************************)
(* Judge claims, checked under SpecAgent                                   *)
(***************************************************************************)
\* C27 as claimed: a failing LLM-log write after a successful Judge LLM call
\* does not change the verdict: when the LLM returned should_engage = False,
\* Judge.evaluate returns that verdict, reasoning included, even when the
\* log write raises
C27_LogFailureKeepsVerdict ==
    judgement.made =>
        \A i \in DOMAIN judgement.candidates :
            ( /\ judgement.mets[i].prompt
              /\ ~HardBlocked(judgement.candidates[i])
              /\ judgement.mets[i].llm.kind = "content"
              /\ ~judgement.mets[i].llm.content.should_engage
              /\ ~judgement.mets[i].log )
            => judgement.verdicts[i] = Ok(judgement.mets[i].llm.content)

\* the candidates judge_all got a verdict for that says should_engage
Engaged ==
    { i \in DOMAIN judgement.candidates :
        ~judgement.verdicts[i].raised /\ judgement.verdicts[i].value.should_engage }

\* the candidates judge_all got a verdict for that says not to engage
Rejected ==
    { i \in DOMAIN judgement.candidates :
        ~judgement.verdicts[i].raised /\ ~judgement.verdicts[i].value.should_engage }

\* C28: judge_all judges every candidate, an exception for one of them
\* notwithstanding; it returns, in candidate order, exactly the (post,
\* verdict) pairs whose verdict says should_engage; and every candidate whose
\* verdict says not to engage has its discovery record (where it has one and
\* the status write goes through) set to "rejected" with a reasoning that
\* starts with "[Judge] "
C28_JudgeAllFiltersInOrder ==
    judgement.made =>
        /\ Len(judgement.verdicts) = Len(judgement.candidates)
        /\ \A i \in DOMAIN judgement.candidates :
              judgement.verdicts[i]
                  = Judge_evaluate(judgement.candidates[i], judgement.mets[i])
        /\ Len(judgement.approved) = Cardinality(Engaged)
        /\ \E f \in [DOMAIN judgement.approved -> Engaged] :
              /\ \A m, n \in DOMAIN f : m < n => f[m] < f[n]
              /\ \A k \in DOMAIN f :
                    judgement.approved[k] = <<judgement.candidates[f[k]],
                                              judgement.verdicts[f[k]].value>>
        /\ \A i \in Rejected :
              LET post == judgement.candidates[i]
                  row == db.discovered_posts[<<post.id, post.platform>>]
              IN  (judgement.mets[i].update /\ row.status # "absent")
                      => /\ row.status = "rejected"
                         /\ Head(row.ai_reasoning) = "[Judge] "
                         /\ \E j \in Rejected :
                               /\ judgement.candidates[j].id = post.id
                               /\ judgement.candidates[j].platform = post.platform
                               /\ row.ai_reasoning = <<"[Judge] ">>
                                      \o judgement.verdicts[j].value.reasoning

\* the Judge raised for the first of two candidates and the second was
\* still judged, rejected, and recorded as rejected
C28_Witness ==
    /\ judgement.made
    /\ Len(judgement.candidates) = 2
    /\ judgement.verdicts[1].raised
    /\ 2 \in Rejected
    /\ judgement.approved = <<>>
    /\ LET post == judgement.candidates[2]
       IN  db.discovered_posts[<<post.id, post.platform>>]
               = [status |-> "rejected",
                  ai_reasoning |-> <<"[Judge] ">> \o judgement.verdicts[2].value.reasoning]

(***************************************************************************)
(* Dry-run claim, checked under Spec                                       *)
(***************************************************************************)
\* C29 as claimed: with settings.dry_run true no comment is posted: run_cycle
\* never has client.post_comment succeed, never logs an interaction and
\* never increments the daily counter
C29_DryRunPostsNothing ==
    settings.dry_run =>
        /\ \A key \in Keys : audit.commented[key] = 0
        /\ db.interactions = EmptyDb.interactions
        /\ db.daily_stats = EmptyDb.daily_stats

====
